---- MODULE Spec2Model ----
(***************************************************************************)
(* lz_fnv: the Fowler-Noll-Vo hashers Fnv0<T>, Fnv1<T> and Fnv1a<T> of      *)
(* src/src/lib.rs, for T = u32, u64 and the 128-bit integer.                *)
(*                                                                          *)
(* A value of type T is a little-endian sequence of 16-bit limbs (2, 4 or  *)
(* 8 of them), because TLC's integers are 32 bits wide: all arithmetic on  *)
(* T is done limb by limb and wraps modulo 2^w.                             *)
(*                                                                          *)
(* The state is one accumulator and the history of the calls made on it.   *)
(* The impl of std::hash::Hasher for the u64 hashers only forwards to       *)
(* FnvHasher::finish and FnvHasher::write and has no definition of its own. *)
(*                                                                          *)
(* A definition introduced as "Mutation" is a faulty variant of the        *)
(* definition that follows it; the model never uses it. Each claim is       *)
(* checked once more with one definition replaced by its mutation, to show  *)
(* that the claim depends on that definition.                               *)
(***************************************************************************)
EXTENDS Integers, Sequences, FiniteSets

VARIABLES
    variant,    \* which struct the accumulator is: "none" before construction
    width,      \* the bit width of T: 32, 64 or 128 (0 before construction)
    self,       \* the struct itself, [hash |-> T]
    ctor,       \* history: the constructor that made it, "new" or "with_key"
    key,        \* history: the argument of with_key (<<>> for new)
    calls,      \* history: the arguments of the write calls so far, in order
    op,         \* history: the last operation called
    ret         \* history: what the last call returned (<<>> for no value)

vars == <<variant, width, self, ctor, key, calls, op, ret>>

-----------------------------------------------------------------------------
(* The integer types.                                                       *)

Widths == {32, 64, 128}
\* One limb holds 16 bits.
LimbBase == 256 * 256
Limbs(w) == w \div 16

RECURSIVE Zeros(_)
Zeros(n) == IF n = 0 THEN <<>> ELSE <<0>> \o Zeros(n - 1)

RECURSIVE Ones(_)
Ones(n) == IF n = 0 THEN <<>> ELSE <<LimbBase - 1>> \o Ones(n - 1)

\* T::default() of an integer type: zero.
T_default(w) == Zeros(Limbs(w))

\* T::MAX, every bit set.
T_max(w) == Ones(Limbs(w))

\* A big-endian list of bytes (an even number of them), as the hexadecimal
\* literals of the source are written, to limbs.
RECURSIVE FromBytesBE(_)
FromBytesBE(bs) ==
    IF bs = <<>> THEN <<>>
    ELSE Append(FromBytesBE(Tail(Tail(bs))), bs[1] * 256 + bs[2])

\* The limbs of T as a big-endian list of bytes.
RECURSIVE ToBytesBE(_)
ToBytesBE(v) ==
    IF v = <<>> THEN <<>>
    ELSE ToBytesBE(Tail(v)) \o <<Head(v) \div 256, Head(v) % 256>>

\* A value of T is in range: exactly w bits.
InRange(v, w) ==
    /\ Len(v) = Limbs(w)
    /\ \A k \in 1..Len(v) : v[k] \in 0..(LimbBase - 1)

\* Bitwise exclusive or of two naturals.
RECURSIVE BitXor(_, _)
BitXor(a, b) ==
    IF a = 0 THEN b
    ELSE IF b = 0 THEN a
    ELSE ((a + b) % 2) + 2 * BitXor(a \div 2, b \div 2)

\* hash ^ x on T.
RECURSIVE XorFrom(_, _, _)
XorFrom(a, b, k) ==
    IF k > Len(a) THEN <<>>
    ELSE <<BitXor(a[k], b[k])>> \o XorFrom(a, b, k + 1)

Xor(a, b) == XorFrom(a, b, 1)

\* One row of the long multiplication: acc + ((a * m) << 16 (j - 1)), the
\* limbs from k on, truncated to Len(acc) limbs. m is one limb of the
\* multiplier, taken as its two bytes so that no partial product exceeds
\* 2^31.
RECURSIVE AddRow(_, _, _, _, _, _)
AddRow(acc, a, m, j, k, carry) ==
    IF k > Len(acc) THEN <<>>
    ELSE LET x  == IF k >= j THEN a[k - j + 1] ELSE 0
             hi == x * (m \div 256)
             s  == acc[k] + x * (m % 256) + (hi % 256) * 256 + carry
         IN  <<s % LimbBase>>
                 \o AddRow(acc, a, m, j, k + 1, s \div LimbBase + hi \div 256)

RECURSIVE MulRows(_, _, _, _)
MulRows(acc, a, b, j) ==
    IF j > Len(b) THEN acc
    ELSE MulRows(IF b[j] = 0 THEN acc ELSE AddRow(acc, a, b[j], j, 1, 0),
                 a, b, j + 1)

\* T::wrapping_mul: the product modulo 2^w.
wrapping_mul(a, b) == MulRows(Zeros(Len(a)), a, b, 1)

\* $from_byte: |byte| byte as T, the byte zero-extended to w bits.
from_byte(byte, w) == <<byte>> \o Zeros(Limbs(w) - 1)

-----------------------------------------------------------------------------
(* The constants of the three instantiations of fnv_impl!.                  *)

Offset(w) ==
    CASE w = 32  -> FromBytesBE(<<\H81, \H1c, \H9d, \Hc5>>)
      [] w = 64  -> FromBytesBE(<<\Hcb, \Hf2, \H9c, \He4,
                                  \H84, \H22, \H23, \H25>>)
      [] w = 128 -> FromBytesBE(<<\H6C, \H62, \H27, \H2E,
                                  \H07, \HBB, \H01, \H42,
                                  \H62, \HB8, \H21, \H75,
                                  \H62, \H95, \HC5, \H8D>>)

\* Mutation: the primes with a zero of the 64-bit one dropped: 0x10000001B3.
Prime_typo(w) ==
    CASE w = 32  -> FromBytesBE(<<\H01, \H00, \H01, \H93>>)
      [] w = 64  -> FromBytesBE(<<\H00, \H00, \H00, \H10,
                                  \H00, \H00, \H01, \HB3>>)
      [] w = 128 -> FromBytesBE(<<\H00, \H00, \H00, \H00,
                                  \H01, \H00, \H00, \H00,
                                  \H00, \H00, \H00, \H00,
                                  \H00, \H00, \H01, \H3B>>)

Prime(w) ==
    CASE w = 32  -> FromBytesBE(<<\H01, \H00, \H01, \H93>>)
      [] w = 64  -> FromBytesBE(<<\H00, \H00, \H01, \H00,
                                  \H00, \H00, \H01, \HB3>>)
      [] w = 128 -> FromBytesBE(<<\H00, \H00, \H00, \H00,
                                  \H01, \H00, \H00, \H00,
                                  \H00, \H00, \H00, \H00,
                                  \H00, \H00, \H01, \H3B>>)

-----------------------------------------------------------------------------
(* Constructors.                                                            *)

\* Mutation: a default for FNV-0 that is the offset basis of the other two variants.
Fnv0_default_basis(w) == [hash |-> Offset(w)]

\* #[derive(Default)] on Fnv0<T>: every field its type's default.
Fnv0_default(w) == [hash |-> T_default(w)]

\* Fnv0::<T>::new.
Fnv0_new(w) == Fnv0_default(w)

\* Fnv0::with_key.
Fnv0_with_key(k) == [hash |-> k]

\* Fnv1::with_key.
Fnv1_with_key(k) == [hash |-> k]

\* Fnv1a::with_key.
Fnv1a_with_key(k) == [hash |-> k]

\* impl Default for Fnv1<$type>.
Fnv1_default(w) == [hash |-> Offset(w)]

\* Fnv1::<$type>::new.
Fnv1_new(w) == Fnv1_default(w)

\* Mutation: a default for FNV-1a that starts from zero, as FNV-0 does.
Fnv1a_default_zero(w) == [hash |-> T_default(w)]

\* impl Default for Fnv1a<$type>.
Fnv1a_default(w) == [hash |-> Offset(w)]

\* Fnv1a::<$type>::new.
Fnv1a_new(w) == Fnv1a_default(w)

-----------------------------------------------------------------------------
(* FnvHasher::finish and FnvHasher::write.                                  *)
(*                                                                          *)
(* A loop is a recursion over its state, the local `hash` and the position *)
(* i of the iterator in `bytes`; the state is a record so that TLC computes *)
(* each iteration's value before it starts the next.                        *)

\* Mutation: the loop body of FNV-0 with the product not assigned back to hash.
Fnv0_step_unassigned(hash, byte, w) == Xor(hash, from_byte(byte, w))

\* The body of the loop of Fnv0::write.
Fnv0_step(hash, byte, w) ==
    LET h == wrapping_mul(hash, Prime(w))
    IN  Xor(h, from_byte(byte, w))

RECURSIVE Fnv0_loop(_, _, _)
Fnv0_loop(st, bytes, w) ==
    IF st.i > Len(bytes) THEN st.hash
    ELSE Fnv0_loop([hash |-> Fnv0_step(st.hash, bytes[st.i], w),
                    i |-> st.i + 1], bytes, w)

Fnv0_write(s, bytes, w) ==
    LET hash == Fnv0_loop([hash |-> s.hash, i |-> 1], bytes, w)
    IN  [s EXCEPT !.hash = hash]

Fnv0_finish(s) == s.hash

\* Mutation: the loop body of FNV-1 with its two statements in the order of FNV-1a.
Fnv1_step_xor_first(hash, byte, w) ==
    LET h == Xor(hash, from_byte(byte, w))
    IN  wrapping_mul(h, Prime(w))

\* Mutation: the loop body of FNV-1 with the product not assigned back to hash.
Fnv1_step_unassigned(hash, byte, w) == Xor(hash, from_byte(byte, w))

\* The body of the loop of Fnv1::write.
Fnv1_step(hash, byte, w) ==
    LET h == wrapping_mul(hash, Prime(w))
    IN  Xor(h, from_byte(byte, w))

RECURSIVE Fnv1_loop(_, _, _)
Fnv1_loop(st, bytes, w) ==
    IF st.i > Len(bytes) THEN st.hash
    ELSE Fnv1_loop([hash |-> Fnv1_step(st.hash, bytes[st.i], w),
                    i |-> st.i + 1], bytes, w)

\* Mutation: a write that multiplies once more after the loop.
Fnv1_write_extra(s, bytes, w) ==
    LET hash == Fnv1_loop([hash |-> s.hash, i |-> 1], bytes, w)
    IN  [s EXCEPT !.hash = wrapping_mul(hash, Prime(w))]

Fnv1_write(s, bytes, w) ==
    LET hash == Fnv1_loop([hash |-> s.hash, i |-> 1], bytes, w)
    IN  [s EXCEPT !.hash = hash]

Fnv1_finish(s) == s.hash

\* Mutation: the loop body of FNV-1a with its two statements in the order of FNV-1.
Fnv1a_step_swapped(hash, byte, w) ==
    LET h == wrapping_mul(hash, Prime(w))
    IN  Xor(h, from_byte(byte, w))

\* The body of the loop of Fnv1a::write.
Fnv1a_step(hash, byte, w) ==
    LET h == Xor(hash, from_byte(byte, w))
    IN  wrapping_mul(h, Prime(w))

RECURSIVE Fnv1a_loop(_, _, _)
Fnv1a_loop(st, bytes, w) ==
    IF st.i > Len(bytes) THEN st.hash
    ELSE Fnv1a_loop([hash |-> Fnv1a_step(st.hash, bytes[st.i], w),
                     i |-> st.i + 1], bytes, w)

\* Mutation: a write that starts each call from the offset basis, not from self.hash.
Fnv1a_write_restart(s, bytes, w) ==
    LET hash == Fnv1a_loop([hash |-> Offset(w), i |-> 1], bytes, w)
    IN  [s EXCEPT !.hash = hash]

Fnv1a_write(s, bytes, w) ==
    LET hash == Fnv1a_loop([hash |-> s.hash, i |-> 1], bytes, w)
    IN  [s EXCEPT !.hash = hash]

\* Mutation: a finish that mixes the value once more before it returns it.
Fnv1a_finish_mixed(s) == wrapping_mul(s.hash, Prime(16 * Len(s.hash)))

Fnv1a_finish(s) == s.hash

-----------------------------------------------------------------------------
(* The inputs.                                                              *)

\* The most write calls made on one accumulator.
MaxWrites == 3

\* The arguments of write: the empty slice and slices of one, two and three
\* bytes, with the least and the greatest byte among them.
Inputs == {<<>>, <<97>>, <<255>>, <<0, 128>>, <<98, 1, 254>>}

\* The seeds given to with_key: 872 (the seed of the documentation), and
\* T::MAX.
Keys(w) == {<<872>> \o Zeros(Limbs(w) - 1), T_max(w)}

-----------------------------------------------------------------------------
(* One accumulator, from its construction on.                               *)

Init ==
    /\ variant = "none"
    /\ width = 0
    /\ self = [hash |-> <<>>]
    /\ ctor = "none"
    /\ key = <<>>
    /\ calls = <<>>
    /\ op = "none"
    /\ ret = <<>>

Constructed(v, w, s, c, k) ==
    /\ variant = "none"
    /\ variant' = v
    /\ width' = w
    /\ self' = s
    /\ ctor' = c
    /\ key' = k
    /\ op' = c
    /\ UNCHANGED <<calls, ret>>

CallFnv0New(w) == Constructed("Fnv0", w, Fnv0_new(w), "new", <<>>)

CallFnv1New(w) == Constructed("Fnv1", w, Fnv1_new(w), "new", <<>>)

CallFnv1aNew(w) == Constructed("Fnv1a", w, Fnv1a_new(w), "new", <<>>)

CallFnv0WithKey(w, k) == Constructed("Fnv0", w, Fnv0_with_key(k), "with_key", k)

CallFnv1WithKey(w, k) == Constructed("Fnv1", w, Fnv1_with_key(k), "with_key", k)

CallFnv1aWithKey(w, k) == Constructed("Fnv1a", w, Fnv1a_with_key(k), "with_key", k)

Written(s) ==
    /\ self' = s
    /\ op' = "write"
    /\ ret' = <<>>
    /\ UNCHANGED <<variant, width, ctor, key>>

CallFnv0Write(bytes) ==
    /\ variant = "Fnv0"
    /\ calls' = Append(calls, bytes)
    /\ Written(Fnv0_write(self, bytes, width))

CallFnv1Write(bytes) ==
    /\ variant = "Fnv1"
    /\ calls' = Append(calls, bytes)
    /\ Written(Fnv1_write(self, bytes, width))

CallFnv1aWrite(bytes) ==
    /\ variant = "Fnv1a"
    /\ calls' = Append(calls, bytes)
    /\ Written(Fnv1a_write(self, bytes, width))

Finished(r) ==
    /\ ret' = r
    /\ op' = "finish"
    /\ UNCHANGED <<variant, width, self, ctor, key, calls>>

CallFnv0Finish == variant = "Fnv0" /\ Finished(Fnv0_finish(self))

CallFnv1Finish == variant = "Fnv1" /\ Finished(Fnv1_finish(self))

CallFnv1aFinish == variant = "Fnv1a" /\ Finished(Fnv1a_finish(self))

Construct ==
    \E w \in Widths :
        \/ CallFnv0New(w)
        \/ CallFnv1New(w)
        \/ CallFnv1aNew(w)
        \/ \E k \in Keys(w) :
            \/ CallFnv0WithKey(w, k)
            \/ CallFnv1WithKey(w, k)
            \/ CallFnv1aWithKey(w, k)

Write(bytes) ==
    \/ CallFnv0Write(bytes)
    \/ CallFnv1Write(bytes)
    \/ CallFnv1aWrite(bytes)

Finish ==
    \/ CallFnv0Finish
    \/ CallFnv1Finish
    \/ CallFnv1aFinish

Next ==
    \/ Construct
    \/ \E bytes \in Inputs : Len(calls) < MaxWrites /\ Write(bytes)
    \/ Finish

Spec == Init /\ [][Next]_vars

-----------------------------------------------------------------------------
(* One-shot hashing, as the tests of the crate do it: construct, write     *)
(* once, finish.                                                            *)

\* b"chongo <Landon Curt Noll> /\\../\\"
Chongo ==
    <<99, 104, 111, 110, 103, 111, 32, 60, 76, 97, 110, 100, 111, 110, 32,
      67, 117, 114, 116, 32, 78, 111, 108, 108, 62, 32, 47, 92, 46, 46, 47,
      92>>

\* b"foobar"
Foobar == <<102, 111, 111, 98, 97, 114>>

\* Every slice of one byte.
SingleBytes == {<<b>> : b \in 0..255}

\* Slices of two bytes.
PairBytes == {0, 1, 97, 128, 255}
Pairs == {<<a, b>> : a \in PairBytes, b \in PairBytes}

\* Slices of four bytes, each with a reordering of it.
Reordered ==
    {<<0, 179, 36, 136>>, <<36, 0, 136, 179>>,
     <<3, 217, 39, 8>>, <<39, 8, 217, 3>>,
     <<74, 4, 229, 244>>, <<229, 74, 244, 4>>}

TestInputs == {Chongo, Foobar} \cup SingleBytes \cup Pairs \cup Reordered

NextOneShot ==
    \/ Construct
    \/ \E bytes \in TestInputs : calls = <<>> /\ Write(bytes)
    \/ Finish

SpecOneShot == Init /\ [][NextOneShot]_vars

-----------------------------------------------------------------------------
(* The claims. Concat, Fresh, OneWrite, Step, Fnv0_after and Fnv1_after     *)
(* apply the definitions above. StandardBasis, ReferencePrime, MulMod,      *)
(* XorByte and ReferenceStep are the constants and the arithmetic of the    *)
(* FNV reference, written on bytes and independently of the model of the    *)
(* code.                                                                    *)

\* All the bytes written so far, in order.
RECURSIVE Concat(_)
Concat(cs) == IF cs = <<>> THEN <<>> ELSE Head(cs) \o Concat(Tail(cs))

\* A fresh accumulator made the way this one was.
Fresh ==
    CASE variant = "Fnv0"  -> IF ctor = "new" THEN Fnv0_new(width)
                              ELSE Fnv0_with_key(key)
      [] variant = "Fnv1"  -> IF ctor = "new" THEN Fnv1_new(width)
                              ELSE Fnv1_with_key(key)
      [] variant = "Fnv1a" -> IF ctor = "new" THEN Fnv1a_new(width)
                              ELSE Fnv1a_with_key(key)

\* finish() after one write(bytes) on the accumulator s of this variant.
OneWrite(s, bytes) ==
    CASE variant = "Fnv0"  -> Fnv0_finish(Fnv0_write(s, bytes, width))
      [] variant = "Fnv1"  -> Fnv1_finish(Fnv1_write(s, bytes, width))
      [] variant = "Fnv1a" -> Fnv1a_finish(Fnv1a_write(s, bytes, width))

\* C1. Streaming equivalence: whatever the split of the bytes into write
\* calls, empty ones included, the accumulator holds what a fresh accumulator
\* with the same initial value holds after one write of the concatenation.
C1Streaming ==
    variant # "none" => self.hash = OneWrite(Fresh, Concat(calls))

\* Three write calls, one of them empty and two of them not, then finish.
C1Witness ==
    /\ Len(calls) = 3
    /\ \E i \in 1..3 : calls[i] = <<>>
    /\ Cardinality({i \in 1..3 : calls[i] # <<>>}) = 2
    /\ op = "finish"
    /\ ret = self.hash

\* The standard offset bases, as the FNV reference gives them.
StandardBasis(w) ==
    CASE w = 32  -> <<\H81, \H1c, \H9d, \Hc5>>
      [] w = 64  -> <<\Hcb, \Hf2, \H9c, \He4, \H84, \H22, \H23, \H25>>
      [] w = 128 -> <<\H6C, \H62, \H27, \H2E, \H07, \HBB, \H01, \H42,
                      \H62, \HB8, \H21, \H75, \H62, \H95, \HC5, \H8D>>

\* The initial value on record: the seed after with_key, zero after
\* Fnv0::new, the standard offset basis of the width after Fnv1::new and
\* Fnv1a::new.
HoldsInitialValue ==
    IF ctor = "with_key" THEN self.hash = key
    ELSE IF variant = "Fnv0"
         THEN \A k \in 1..Limbs(width) : self.hash[k] = 0
         ELSE ToBytesBE(self.hash) = StandardBasis(width)

\* C4. Empty-input identity: write(&[]) leaves the accumulator as it was,
\* and an accumulator that has absorbed nothing, or only empty slices, holds
\* its initial value.
C4EmptyIdentity ==
    [][/\ (op' = "write" /\ calls' = Append(calls, <<>>)) => self' = self
       /\ (variant' # "none" /\ Concat(calls') = <<>>) => HoldsInitialValue']_vars

\* Fnv1a::<u128>::new(), two empty writes, then finish returns the basis.
C4Witness ==
    /\ variant = "Fnv1a"
    /\ width = 128
    /\ ctor = "new"
    /\ calls = <<<<>>, <<>>>>
    /\ op = "finish"
    /\ ToBytesBE(ret) = StandardBasis(128)

\* One step of the variant's update rule.
Step(v, hash, byte, w) ==
    CASE v = "Fnv0"  -> Fnv0_step(hash, byte, w)
      [] v = "Fnv1"  -> Fnv1_step(hash, byte, w)
      [] v = "Fnv1a" -> Fnv1a_step(hash, byte, w)

\* The fold of the update rule over bytes, from hash.
RECURSIVE Fold(_, _, _, _)
Fold(v, hash, bytes, w) ==
    IF bytes = <<>> THEN hash
    ELSE Step(v, Fold(v, hash, SubSeq(bytes, 1, Len(bytes) - 1), w),
              bytes[Len(bytes)], w)

\* C5. finish is a pure observation: it leaves the accumulator as it was,
\* it returns the fold of the update rule over all the bytes written so far
\* from the initial value, and a finish that follows a finish returns the
\* same value.
C5FinishPure ==
    [][op' = "finish" =>
         /\ self' = self
         /\ calls' = calls
         /\ ret' = Fold(variant, Fresh.hash, Concat(calls), width)
         /\ (op = "finish" => ret' = ret)]_vars

\* A finish after three writes, two of them not empty.
C5Witness ==
    /\ op = "finish"
    /\ Len(calls) = 3
    /\ Cardinality({i \in 1..3 : calls[i] # <<>>}) >= 2
    /\ ret = self.hash
    /\ ret # Fresh.hash

\* C6, as the specification states it: FNV-0 is only ever constructed from
\* a seed of the caller.
C6Fnv0SeedOnly == variant = "Fnv0" => ctor = "with_key"

\* C6, as the code has it: each of the three variants is constructed by
\* new or by with_key; with_key starts from the caller's seed, Fnv1::new
\* and Fnv1a::new from the offset basis of the width, and Fnv0::new from
\* zero.
C6Constructors ==
    (variant # "none" /\ op = ctor) =>
        /\ ctor \in {"new", "with_key"}
        /\ ctor = "with_key" => self.hash = key
        /\ (ctor = "new" /\ variant = "Fnv0") => self.hash = T_default(width)
        /\ (ctor = "new" /\ variant # "Fnv0") =>
               /\ self.hash = Offset(width)
               /\ self.hash # T_default(width)

\* Fnv0::<u64>::new() has just returned.
C6Witness ==
    /\ variant = "Fnv0"
    /\ width = 64
    /\ op = "new"
    /\ self.hash = <<0, 0, 0, 0>>

(* The update rules as the FNV reference states them, on a value given as  *)
(* its bytes, least significant first.                                      *)

\* The primes of the reference, most significant byte first.
ReferencePrime(w) ==
    CASE w = 32  -> <<\H01, \H00, \H01, \H93>>
      [] w = 64  -> <<\H00, \H00, \H01, \H00, \H00, \H00, \H01, \HB3>>
      [] w = 128 -> <<\H00, \H00, \H00, \H00, \H01, \H00, \H00, \H00,
                      \H00, \H00, \H00, \H00, \H00, \H00, \H01, \H3B>>

RECURSIVE Reverse(_)
Reverse(q) == IF q = <<>> THEN <<>> ELSE Append(Reverse(Tail(q)), Head(q))

\* Bit i of the natural a.
Bit(a, i) == (a \div (2 ^ i)) % 2

\* a XOR b on bytes, bit by bit.
ByteXor(a, b) ==
    LET d(i) == IF Bit(a, i) = Bit(b, i) THEN 0 ELSE 2 ^ i
    IN  d(0) + d(1) + d(2) + d(3) + d(4) + d(5) + d(6) + d(7)

\* The sum of a[i] * b[k + 1 - i] for i in 1..k: column k of the product.
RECURSIVE Column(_, _, _, _)
Column(a, b, k, i) ==
    IF i > k THEN 0 ELSE a[i] * b[k + 1 - i] + Column(a, b, k, i + 1)

\* (a * b) mod 2^(8 n): the columns 1..n of the product, the carries
\* propagated, everything from column n + 1 on dropped.
RECURSIVE MulModFrom(_, _, _, _)
MulModFrom(a, b, k, carry) ==
    IF k > Len(a) THEN <<>>
    ELSE LET c == Column(a, b, k, 1) + carry
         IN  <<c % 256>> \o MulModFrom(a, b, k + 1, c \div 256)

MulMod(a, b) == MulModFrom(a, b, 1, 0)

\* v XOR byte, the byte zero-extended: only the least significant byte of v
\* changes.
XorByte(v, byte) == <<ByteXor(v[1], byte)>> \o Tail(v)

ReferenceStep(v, value, byte, w) ==
    LET p == Reverse(ReferencePrime(w))
    IN  IF v = "Fnv1a" THEN MulMod(XorByte(value, byte), p)
        ELSE XorByte(MulMod(value, p), byte)

\* C8. The update rule, with wraparound: a write of one byte b takes the
\* value v to ((v XOR b) * PRIME) mod 2^w for FNV-1a and to
\* ((v * PRIME) mod 2^w) XOR b for FNV-0 and FNV-1, and the value is a w-bit
\* value after every operation.
C8UpdateRule ==
    [][/\ variant' # "none" => InRange(self'.hash, width')
       /\ (op' = "write" /\ Len(calls') = Len(calls) + 1
             /\ Len(calls'[Len(calls')]) = 1) =>
            Reverse(ToBytesBE(self'.hash)) =
                ReferenceStep(variant, Reverse(ToBytesBE(self.hash)),
                              calls'[Len(calls')][1], width)]_vars

\* A one-byte write on a value whose product with the prime exceeds 2^w.
C8Witness ==
    /\ op = "write"
    /\ calls = <<<<0, 128>>, <<255>>>>
    /\ ctor = "with_key"
    /\ key = T_max(width)
    /\ variant = "Fnv1a"
    /\ width = 128

\* What a Fnv0 and a Fnv1 accumulator hold after the write calls cs.
RECURSIVE Fnv0_after(_, _, _)
Fnv0_after(s, cs, w) ==
    IF cs = <<>> THEN s ELSE Fnv0_after(Fnv0_write(s, Head(cs), w), Tail(cs), w)

RECURSIVE Fnv1_after(_, _, _)
Fnv1_after(s, cs, w) ==
    IF cs = <<>> THEN s ELSE Fnv1_after(Fnv1_write(s, Head(cs), w), Tail(cs), w)

\* C9. FNV-0 and FNV-1 are the same fold: after the same write calls,
\* Fnv0::with_key(k) and Fnv1::with_key(k) hold the same value and finish
\* returns the same.
C9Fnv0IsFnv1 ==
    ctor = "with_key" =>
        /\ variant = "Fnv0" =>
               /\ self = Fnv1_after(Fnv1_with_key(key), calls, width)
               /\ Fnv0_finish(self)
                     = Fnv1_finish(Fnv1_after(Fnv1_with_key(key), calls, width))
        /\ variant = "Fnv1" =>
               /\ self = Fnv0_after(Fnv0_with_key(key), calls, width)
               /\ Fnv1_finish(self)
                     = Fnv0_finish(Fnv0_after(Fnv0_with_key(key), calls, width))

\* Fnv0::with_key(872) after three writes, two of them not empty.
C9Witness ==
    /\ variant = "Fnv0"
    /\ ctor = "with_key"
    /\ key[1] = 872
    /\ Len(calls) = 3
    /\ Cardinality({i \in 1..3 : calls[i] # <<>>}) >= 2
    /\ op = "finish"
    /\ ret = Fnv1_finish(Fnv1_after(Fnv1_with_key(key), calls, width))

\* C2. FNV-0 reproduces the offset basis: for 32 and 64 bits, Fnv0::new()
\* after the 32 bytes of "chongo <Landon Curt Noll> /\../\" holds the value
\* Fnv1::new() and Fnv1a::new() start from, 0x811c9dc5 and
\* 0xcbf29ce484222325.
C2OffsetBasis ==
    (variant = "Fnv0" /\ ctor = "new" /\ calls = <<Chongo>>
        /\ width \in {32, 64}) =>
        /\ self.hash = Fnv1_new(width).hash
        /\ self.hash = Fnv1a_new(width).hash
        /\ ToBytesBE(self.hash) = StandardBasis(width)
        /\ op = "finish" => ret = self.hash

\* The test fnv0_64_prime_calculation at its assertion.
C2Witness ==
    /\ variant = "Fnv0"
    /\ ctor = "new"
    /\ width = 64
    /\ calls = <<Chongo>>
    /\ op = "finish"
    /\ ToBytesBE(ret) = <<\Hcb, \Hf2, \H9c, \He4, \H84, \H22, \H23, \H25>>

\* C3. The 128-bit FNV-1a of "foobar" from the default offset basis is
\* 0x343e1662793c64bf6f0d3597ba446f18.
C3Foobar128 ==
    (variant = "Fnv1a" /\ ctor = "new" /\ width = 128
        /\ calls = <<Foobar>>) =>
        /\ ToBytesBE(self.hash) =
               <<\H34, \H3e, \H16, \H62, \H79, \H3c, \H64, \Hbf,
                 \H6f, \H0d, \H35, \H97, \Hba, \H44, \H6f, \H18>>
        /\ op = "finish" => ret = self.hash

\* The test test_hash at its assertion.
C3Witness ==
    /\ variant = "Fnv1a"
    /\ ctor = "new"
    /\ width = 128
    /\ calls = <<Foobar>>
    /\ op = "finish"
    /\ ret = self.hash
    /\ ToBytesBE(Fresh.hash) = StandardBasis(128)

\* s2 holds the bytes of s1 in another order.
Count(q, b) == Cardinality({i \in 1..Len(q) : q[i] = b})
IsReordering(s1, s2) ==
    /\ Len(s1) = Len(s2)
    /\ s1 # s2
    /\ \A i \in 1..Len(s1) : Count(s1, s1[i]) = Count(s2, s1[i])

\* C7, as the specification states it: from the same initial value, every
\* reordering of the bytes absorbed gives another digest.
C7EveryReordering ==
    Len(calls) = 1 =>
        \A s2 \in TestInputs :
            IsReordering(calls[1], s2) => self.hash # OneWrite(Fresh, s2)

\* C7, as the code has it: from the same initial value, two distinct bytes
\* absorbed as [a, b] and as [b, a] give two digests.
C7SwapTwoBytes ==
    (Len(calls) = 1 /\ Len(calls[1]) = 2 /\ calls[1][1] # calls[1][2]) =>
        self.hash # OneWrite(Fresh, <<calls[1][2], calls[1][1]>>)

\* [255, 1] absorbed and read, from a seed with every bit set.
C7Witness ==
    /\ calls = <<<<255, 1>>>>
    /\ ctor = "with_key"
    /\ key = T_max(width)
    /\ op = "finish"
    /\ ret # OneWrite(Fresh, <<1, 255>>)

\* C10. On one byte b, for 32 and 64 bits, Fnv1::new() and Fnv1a::new()
\* give the same digest exactly when b = 0, and that digest is
\* (offset basis * prime) mod 2^w.
C10OneByte ==
    (ctor = "new" /\ width \in {32, 64} /\ Len(calls) = 1
        /\ Len(calls[1]) = 1) =>
        LET b  == calls[1][1]
            h1  == Fnv1_finish(Fnv1_write(Fnv1_new(width), <<b>>, width))
            h1a == Fnv1a_finish(Fnv1a_write(Fnv1a_new(width), <<b>>, width))
        IN  /\ variant = "Fnv1" => self.hash = h1 /\ (self.hash = h1a <=> b = 0)
            /\ variant = "Fnv1a" => self.hash = h1a /\ (self.hash = h1 <=> b = 0)
            /\ (variant # "Fnv0" /\ b = 0) =>
                   self.hash = wrapping_mul(Offset(width), Prime(width))

\* Fnv1::<u32>::new() after the byte 0, read: the digest of Fnv1a.
C10Witness ==
    /\ variant = "Fnv1"
    /\ ctor = "new"
    /\ width = 32
    /\ calls = <<<<0>>>>
    /\ op = "finish"
    /\ ret = Fnv1a_finish(Fnv1a_write(Fnv1a_new(32), <<0>>, 32))

====
